---- MODULE Spec2Model ----
(***************************************************************************)
(* Model of the command/event relay of turtle_rs                           *)
(* (src/debugger/window/channel.rs): the ChannelWindow endpoint, its two   *)
(* std::sync::mpsc channels, and the backend that holds the other halves.  *)
(***************************************************************************)
EXTENDS Integers, Sequences, FiniteSets

(***************************************************************************)
(* Bounds of the model.                                                    *)
(***************************************************************************)
\* f64 is modelled as an IEEE-754 binary format with round-to-nearest-even,
\* gradual underflow, signed zeros, infinities and NaN, at a reduced size:
\* Precision bits of significand (53 in f64) and units in the last place
\* from 2^-MinExpNeg to 2^MaxExp (2^-1074 .. 2^971 in f64).
Precision == 5
MinExpNeg == 5
MaxExp == 3
\* Calls the producer makes, and events the backend sends, in one behaviour.
MaxCalls == 3
MaxEvts == 2
\* pos.rs: usize is modelled UsizeBits wide (64 on the usual targets);
\* strings parsed have at most MaxStrLen characters; a Pos is mapped at most
\* MaxMaps times.
UsizeBits == 4
MaxStrLen == 4
MaxMaps == 2

(***************************************************************************)
(* f64 arithmetic (channel.rs:54-55 `/`, channel.rs:74-75 `*=`).           *)
(***************************************************************************)
Emin == 0 - MinExpNeg

Pow2(n) == 2 ^ n

\* Number of binary digits of n (0 for n = 0).
RECURSIVE BitLen(_)
BitLen(n) == IF n = 0 THEN 0 ELSE 1 + BitLen(n \div 2)

Max2(a, b) == IF a >= b THEN a ELSE b

\* A value is NaN, a signed infinity, or (-1)^s * m * 2^e with m < 2^Precision.
NaN == [k |-> "nan", s |-> 0, m |-> 0, e |-> 0]
Inf(s) == [k |-> "inf", s |-> s, m |-> 0, e |-> 0]
Zero(s) == [k |-> "fin", s |-> s, m |-> 0, e |-> Emin]
Fin(s, m, e) == [k |-> "fin", s |-> s, m |-> m, e |-> e]

IsNaN(a) == a.k = "nan"
IsInf(a) == a.k = "inf"
IsFinite(a) == a.k = "fin"
IsZero(a) == a.k = "fin" /\ a.m = 0
IsNormal(a) == a.k = "fin" /\ a.m >= Pow2(Precision - 1)

XorSign(a, b) == (a.s + b.s) % 2

\* Rounding of (-1)^s * (q + f) * 2^e to the format, where 0 <= f < 1 and
\* f > 0 exactly when sticky: round to nearest, ties to even; overflow gives
\* an infinity, underflow a subnormal or a zero.
RoundPack(s, q, e, sticky) ==
    IF q = 0 THEN Zero(s)
    ELSE
      LET b == BitLen(q)
          te == Max2(e + b - Precision, Emin)
      IN IF te <= e
         THEN IF te > MaxExp THEN Inf(s) ELSE Fin(s, q * Pow2(e - te), te)
         ELSE LET sh == te - e
              IN IF sh > b THEN Zero(s)
                 ELSE LET q0 == q \div Pow2(sh)
                          rem == q % Pow2(sh)
                          half == Pow2(sh - 1)
                          up == \/ rem > half
                                \/ rem = half /\ (sticky \/ q0 % 2 = 1)
                          q1 == IF up THEN q0 + 1 ELSE q0
                          m2 == IF q1 = Pow2(Precision)
                                THEN Pow2(Precision - 1) ELSE q1
                          e2 == IF q1 = Pow2(Precision) THEN te + 1 ELSE te
                      IN IF q1 = 0 THEN Zero(s)
                         ELSE IF e2 > MaxExp THEN Inf(s)
                         ELSE Fin(s, m2, e2)

\* a / b
FDiv(a, b) ==
    IF IsNaN(a) \/ IsNaN(b) THEN NaN
    ELSE IF IsInf(a) THEN (IF IsInf(b) THEN NaN ELSE Inf(XorSign(a, b)))
    ELSE IF IsInf(b) THEN Zero(XorSign(a, b))
    ELSE IF IsZero(b) THEN (IF IsZero(a) THEN NaN ELSE Inf(XorSign(a, b)))
    ELSE IF IsZero(a) THEN Zero(XorSign(a, b))
    ELSE LET k == 2 * Precision + 1
             n == a.m * Pow2(k)
         IN RoundPack(XorSign(a, b), n \div b.m, a.e - b.e - k, n % b.m # 0)

\* a * b
FMul(a, b) ==
    IF IsNaN(a) \/ IsNaN(b) THEN NaN
    ELSE IF IsInf(a) \/ IsInf(b)
         THEN (IF IsZero(a) \/ IsZero(b) THEN NaN ELSE Inf(XorSign(a, b)))
    ELSE IF IsZero(a) \/ IsZero(b) THEN Zero(XorSign(a, b))
    ELSE RoundPack(XorSign(a, b), a.m * b.m, a.e + b.e, FALSE)

\* a == b of f64: NaN equals nothing, the two zeros are equal.
FEq(a, b) ==
    /\ ~IsNaN(a)
    /\ ~IsNaN(b)
    /\ \/ a = b
       \/ IsZero(a) /\ IsZero(b)

\* The f64 literal of the integer n (n >= 0), and its negation.
FromInt(n) == RoundPack(0, n, 0, FALSE)
FNeg(a) == IF IsNaN(a) THEN a ELSE [a EXCEPT !.s = 1 - a.s]
Half == FDiv(FromInt(1), FromInt(2))

\* Every value of the format.
AllFloats ==
    {NaN} \cup {Inf(s) : s \in {0, 1}}
          \cup {Zero(s) : s \in {0, 1}}
          \cup {Fin(s, m, Emin) : s \in {0, 1},
                                  m \in 1 .. Pow2(Precision - 1) - 1}
          \cup {Fin(s, m, e) : s \in {0, 1},
                               m \in Pow2(Precision - 1) .. Pow2(Precision) - 1,
                               e \in Emin .. MaxExp}

(***************************************************************************)
(* Message vocabulary (channel.rs:5, WindowCmd and WindowEvent).           *)
(***************************************************************************)
NoCoord == <<>>

\* WindowCmd::Draw(from, to, col), WindowCmd::Clear, WindowCmd::Print(text)
CmdDraw(from, to, col) ==
    [kind |-> "Draw", from |-> from, to |-> to, col |-> col, text |-> ""]
CmdClear ==
    [kind |-> "Clear", from |-> NoCoord, to |-> NoCoord, col |-> "",
     text |-> ""]
CmdPrint(msg) ==
    [kind |-> "Print", from |-> NoCoord, to |-> NoCoord, col |-> "",
     text |-> msg]

\* WindowEvent::MouseClicked(pos, button), and any other variant with its
\* payload.
MouseClicked(pos, btn) == [kind |-> "MouseClicked", pos |-> pos, data |-> btn]
OtherEvent(tag) == [kind |-> "Other", pos |-> NoCoord, data |-> tag]

(***************************************************************************)
(* Inputs of the operations.                                               *)
(***************************************************************************)
\* Arguments of set_max_x and set_max_y.
XVals == {FromInt(200), FNeg(FromInt(3))}
YVals == {FromInt(100)}

\* Arguments of set_max_x and set_max_y where any f64 is to be tried: zero,
\* a negative number, a usual size, and NaN.
AxisVals == {Zero(0), FNeg(FromInt(3)), FromInt(200), NaN}

\* Arguments (from, to, col) of draw.
DrawArgs ==
    { <<<<Zero(0), Zero(0)>>, <<FromInt(200), FromInt(100)>>, "red">>,
      <<<<FromInt(100), FromInt(50)>>, <<FromInt(1), FromInt(3)>>, "blue">> }

\* Arguments of print.
PrintArgs == {"hello"}

\* Arguments of print where the text matters.
TextVals == {"hello", "bye"}

\* Events the backend emits.
BackendEvents ==
    { MouseClicked(<<Half, Half>>, "left"),
      OtherEvent("key") }

(***************************************************************************)
(* State.                                                                  *)
(***************************************************************************)
VARIABLES
    max_coord,    \* ChannelWindow.max_coord
    init,         \* ChannelWindow.init: the closure now stored, "f" (the
                  \* initializer given to new) or "noop" (|| ())
    commands,     \* the command channel: [q: buffered, rx: receiver alive]
    events,       \* the event channel: [q: buffered, tx: sender alive]
    pc,           \* producer: "idle", or "events" inside events()
    acc,          \* events(): what collect() has gathered so far
    ret,          \* value returned by the last completed call
    outcome,      \* how the last completed call ended: "ok" or "panic"
    lastCall,     \* the last call made: [op, arg]
    calls,        \* number of calls made by the producer
    initCalls,    \* number of init() calls
    fRuns,        \* number of executions of the initializer f
    cmdIssued,    \* commands the producer has put on the channel, in order
    cmdReceived,  \* commands the backend has read, in order
    evtSent,      \* events the backend has sent, in order
    evtReturned,  \* concatenation of the results of all events() calls
    evtAtCall,    \* while events() is the last call made: [sent: number
                  \* of events sent, tx: sender alive] at that call
    rt,           \* round-trip specification only: [phase, p, max, n, r]
    px            \* pos.rs specification only: a client of FilePos and Pos,
                  \* [phase, s, res, p, out, given, tok0, fns]

vars == <<max_coord, init, commands, events, pc, acc, ret, outcome, lastCall,
          calls, initCalls, fRuns, cmdIssued, cmdReceived, evtSent,
          evtReturned, evtAtCall, rt, px>>

relayVars == <<max_coord, init, commands, events, pc, acc, ret, outcome,
               lastCall, calls, initCalls, fRuns, cmdIssued,
               cmdReceived, evtSent, evtReturned, evtAtCall>>

NoCall == [sent |-> 0, tx |-> TRUE]
RTOff == [phase |-> "off", p |-> NoCoord, max |-> NoCoord, n |-> NoCoord,
          r |-> NoCoord]
PXOff == [phase |-> "off", s |-> <<>>, res |-> <<>>, p |-> <<>>, out |-> <<>>,
          given |-> <<>>, tok0 |-> <<>>, fns |-> <<>>]

(***************************************************************************)
(* Construction (channel.rs:17-30).                                        *)
(***************************************************************************)
\* mpsc::channel(): empty, both halves alive.
NewCmdChannel == [q |-> <<>>, rx |-> TRUE]
NewEvtChannel == [q |-> <<>>, tx |-> TRUE]

\* ChannelWindow::new on the halves of two fresh channels: max_coord
\* (0.0, 0.0) and the given initializer.
New(f) ==
    /\ max_coord = <<Zero(0), Zero(0)>>
    /\ init = f
    /\ commands = NewCmdChannel
    /\ events = NewEvtChannel

\* An endpoint built with an initializer f that does real work; the backend
\* holds the other two halves.
Init ==
    /\ New("f")
    /\ pc = "idle"
    /\ acc = <<>>
    /\ ret = <<>>
    /\ outcome = "none"
    /\ lastCall = [op |-> "none", arg |-> <<>>]
    /\ calls = 0
    /\ initCalls = 0
    /\ fRuns = 0
    /\ cmdIssued = <<>>
    /\ cmdReceived = <<>>
    /\ evtSent = <<>>
    /\ evtReturned = <<>>
    /\ evtAtCall = NoCall
    /\ px = PXOff
    /\ rt = RTOff

(***************************************************************************)
(* The operations of impl Window for ChannelWindow (channel.rs:33-81).     *)
(***************************************************************************)
CanCall == pc = "idle" /\ calls < MaxCalls

\* Bookkeeping of a call other than events(), which completes in one step.
Called(op, arg, how, val) ==
    /\ lastCall' = [op |-> op, arg |-> arg]
    /\ calls' = calls + 1
    /\ outcome' = how
    /\ ret' = val
    /\ evtAtCall' = NoCall

\* Defective variant: the closure is called in place and stays in the field.
KeepInit(old) == old

\* std::mem::replace(&mut self.init, Box::new(|| ())): what is left in the
\* field.
ReplacedInit(old) == "noop"

\* fn init: take the stored closure out, leave the empty one, run what was
\* taken.
InitCall ==
    /\ CanCall
    /\ init' = ReplacedInit(init)
    /\ fRuns' = IF init = "f" THEN fRuns + 1 ELSE fRuns
    /\ initCalls' = initCalls + 1
    /\ Called("init", <<>>, "ok", <<>>)
    /\ UNCHANGED <<max_coord, commands, events, pc, acc, cmdIssued,
                   cmdReceived, evtSent, evtReturned, rt, px>>

\* fn get_max_coords
get_max_coords ==
    /\ CanCall
    /\ Called("get_max_coords", <<>>, "ok", max_coord)
    /\ UNCHANGED <<max_coord, init, commands, events, pc, acc, initCalls,
                   fRuns, cmdIssued, cmdReceived, evtSent, evtReturned, rt, px>>

\* Defective variant: the value is stored in both axes.
set_max_both(max_x) ==
    /\ CanCall
    /\ max_coord' = <<max_x, max_x>>
    /\ Called("set_max_x", <<max_x>>, "ok", <<>>)
    /\ UNCHANGED <<init, commands, events, pc, acc, initCalls, fRuns,
                   cmdIssued, cmdReceived, evtSent, evtReturned, rt, px>>

\* fn set_max_x
set_max_x(max_x) ==
    /\ CanCall
    /\ max_coord' = <<max_x, max_coord[2]>>
    /\ Called("set_max_x", <<max_x>>, "ok", <<>>)
    /\ UNCHANGED <<init, commands, events, pc, acc, initCalls, fRuns,
                   cmdIssued, cmdReceived, evtSent, evtReturned, rt, px>>

\* fn set_max_y
set_max_y(max_y) ==
    /\ CanCall
    /\ max_coord' = <<max_coord[1], max_y>>
    /\ Called("set_max_y", <<max_y>>, "ok", <<>>)
    /\ UNCHANGED <<init, commands, events, pc, acc, initCalls, fRuns,
                   cmdIssued, cmdReceived, evtSent, evtReturned, rt, px>>

\* Defective variants: the axes of the maximum exchanged; a product in place
\* of the quotient.
NormalizeSwapped(p, max) == <<FDiv(p[1], max[2]), FDiv(p[2], max[1])>>
NormalizeTimes(p, max) == <<FMul(p[1], max[1]), FMul(p[2], max[2])>>

\* Defective variant: an axis whose maximum is zero is left unscaled.
NormalizeGuarded(p, max) ==
    <<IF IsZero(max[1]) THEN p[1] ELSE FDiv(p[1], max[1]),
      IF IsZero(max[2]) THEN p[2] ELSE FDiv(p[2], max[2])>>

\* (p.0 / self.max_coord.0, p.1 / self.max_coord.1)
Normalize(p, max) == <<FDiv(p[1], max[1]), FDiv(p[2], max[2])>>

\* The command draw builds.
DrawCmd(from, to, col, max) ==
    CmdDraw(Normalize(from, max), Normalize(to, max), col)

\* Defective variant: the message goes to the front of the buffer.
ChanSendFront(q, msg) == <<msg>> \o q

\* Defective variant: the message is sent twice.
ChanSendTwice(q, msg) == q \o <<msg, msg>>

\* Sender::send on a channel whose receiver is alive: the message goes to
\* the back of the buffer.
ChanSend(q, msg) == Append(q, msg)

\* Defective variant: the newest buffered message is taken.
ChanRecvNewest(q) == [msg |-> q[Len(q)], rest |-> SubSeq(q, 1, Len(q) - 1)]

\* A successful receive: the oldest buffered message leaves the buffer.
ChanRecv(q) == [msg |-> Head(q), rest |-> Tail(q)]

\* Defective variant: the result of send is ignored.
SendOutcomeIgnored(ch) == "ok"

\* send(..).unwrap(): Err(SendError) when the receiver is gone, which unwrap
\* turns into a panic.
SendOutcome(ch) == IF ch.rx THEN "ok" ELSE "panic"

\* Defective variant: a rendezvous-like channel, sync_channel(1), whose send
\* waits while a message is buffered.
ChanAcceptsOne(q) == Len(q) < 1

\* mpsc::channel() is the asynchronous, unbounded channel: send never waits
\* for room or for the receiver.
ChanAccepts(q) == TRUE

\* self.commands.send(cmd).unwrap(): returns at once with Err when the
\* receiver is gone, else as soon as the channel accepts the message.
SendCommand(op, arg, cmd) ==
    /\ CanCall
    /\ ~commands.rx \/ ChanAccepts(commands.q)
    /\ LET how == SendOutcome(commands)
       IN /\ Called(op, arg, how, <<>>)
          /\ IF how = "ok"
             THEN /\ commands' = [commands EXCEPT !.q = ChanSend(@, cmd)]
                  /\ cmdIssued' = Append(cmdIssued, cmd)
             ELSE UNCHANGED <<commands, cmdIssued>>
    /\ UNCHANGED <<max_coord, init, events, pc, acc, initCalls, fRuns,
                   cmdReceived, evtSent, evtReturned, rt, px>>

\* fn draw
draw(from, to, col) ==
    SendCommand("draw", <<from, to, col>>, DrawCmd(from, to, col, max_coord))

\* fn clear
clear == SendCommand("clear", <<>>, CmdClear)

\* fn print: msg.to_string() is a copy of the argument.
print(msg) == SendCommand("print", <<msg>>, CmdPrint(msg))

\* Defective variant: a dropped sender hides what is still buffered.
TryRecvDisconnectFirst(ch) ==
    IF ~ch.tx THEN "Disconnected"
    ELSE IF ch.q # <<>> THEN "Ok" ELSE "Empty"

\* Receiver::try_recv as try_iter uses it: a buffered message if there is
\* one (also after the sender is gone), else Empty or Disconnected.
TryRecv(ch) ==
    IF ch.q # <<>> THEN "Ok"
    ELSE IF ch.tx THEN "Empty" ELSE "Disconnected"

\* TryIter::next is self.rx.try_recv().ok(): Ok(evt) is the next item.
TryIterYields(ch) == TryRecv(ch) = "Ok"

\* Defective variant: iter() in place of try_iter(), which waits for the
\* next event and ends only on disconnection.
IterEnds(ch) == ~ch.tx /\ ch.q = <<>>

\* TryIter::next is self.rx.try_recv().ok(): any Err is None, the end of the
\* iteration.
TryIterEnds(ch) == TryRecv(ch) \in {"Empty", "Disconnected"}

\* Defective variant: the axes of the maximum exchanged.
DenormalizeSwapped(evt, max) ==
    IF evt.kind = "MouseClicked"
    THEN [evt EXCEPT !.pos = <<FMul(evt.pos[1], max[2]),
                               FMul(evt.pos[2], max[1])>>]
    ELSE evt

\* Defective variant: the closure works on the maximum of construction time,
\* captured by value.
DenormalizeStale(evt, max) ==
    IF evt.kind = "MouseClicked"
    THEN [evt EXCEPT !.pos = <<FMul(evt.pos[1], Zero(0)),
                               FMul(evt.pos[2], Zero(0))>>]
    ELSE evt

\* The closure of map: a MouseClicked position is multiplied by max_coord,
\* axis by axis; every other event is returned as it is.
Denormalize(evt, max) ==
    IF evt.kind = "MouseClicked"
    THEN [evt EXCEPT !.pos = <<FMul(evt.pos[1], max[1]),
                               FMul(evt.pos[2], max[2])>>]
    ELSE evt

\* Defective variant: a disconnected channel makes events() panic.
EventsOutcomeStrict(ch) == IF ch.tx THEN "ok" ELSE "panic"

\* How events() ends once the iterator is exhausted: collect() returns the
\* Vec.
EventsOutcome(ch) == "ok"

\* fn events, entered.
EventsCall ==
    /\ CanCall
    /\ pc' = "events"
    /\ acc' = <<>>
    /\ lastCall' = [op |-> "events", arg |-> <<>>]
    /\ calls' = calls + 1
    /\ evtAtCall' = [sent |-> Len(evtSent), tx |-> events.tx]
    /\ UNCHANGED <<max_coord, init, commands, events, ret, outcome, initCalls,
                   fRuns, cmdIssued, cmdReceived, evtSent,
                   evtReturned, rt, px>>

\* fn events: one turn of collect(): try_recv yields an event, the closure
\* maps it, the Vec takes it.
EventsNext ==
    /\ pc = "events"
    /\ TryIterYields(events)
    /\ acc' = Append(acc, Denormalize(ChanRecv(events.q).msg, max_coord))
    /\ events' = [events EXCEPT !.q = ChanRecv(@).rest]
    /\ UNCHANGED <<max_coord, init, commands, pc, ret, outcome, lastCall,
                   calls, initCalls, fRuns, cmdIssued, cmdReceived,
                   evtSent, evtReturned, evtAtCall, rt, px>>

\* fn events: try_recv fails, the iteration ends, the Vec is returned.
EventsReturn ==
    /\ pc = "events"
    /\ TryIterEnds(events)
    /\ pc' = "idle"
    /\ outcome' = EventsOutcome(events)
    /\ ret' = IF EventsOutcome(events) = "ok" THEN acc ELSE <<>>
    /\ evtReturned' = IF EventsOutcome(events) = "ok"
                      THEN evtReturned \o acc ELSE evtReturned
    /\ acc' = <<>>
    /\ UNCHANGED <<max_coord, init, commands, events, lastCall, calls,
                   initCalls, fRuns, cmdIssued, cmdReceived, evtSent,
                   evtAtCall, rt, px>>

(***************************************************************************)
(* The backend: the holder of the Receiver<WindowCmd> and the              *)
(* Sender<WindowEvent> that construct returns (channel.rs:26-30).          *)
(***************************************************************************)
\* cmd_rx.recv(): the oldest buffered command.
BackendRecv ==
    /\ commands.rx
    /\ commands.q # <<>>
    /\ cmdReceived' = Append(cmdReceived, ChanRecv(commands.q).msg)
    /\ commands' = [commands EXCEPT !.q = ChanRecv(@).rest]
    /\ UNCHANGED <<max_coord, init, events, pc, acc, ret, outcome, lastCall,
                   calls, initCalls, fRuns, cmdIssued, evtSent,
                   evtReturned, evtAtCall, rt, px>>

\* evt_tx.send(evt): the endpoint holds the receiver, so the send succeeds.
BackendSend(evt) ==
    /\ events.tx
    /\ Len(evtSent) < MaxEvts
    /\ events' = [events EXCEPT !.q = Append(@, evt)]
    /\ evtSent' = Append(evtSent, evt)
    /\ UNCHANGED <<max_coord, init, commands, pc, acc, ret, outcome, lastCall,
                   calls, initCalls, fRuns, cmdIssued, cmdReceived,
                   evtReturned, evtAtCall, rt, px>>

\* drop(cmd_rx): the channel is disconnected and what it still buffers is
\* dropped with it.
BackendDropCmdRx ==
    /\ commands.rx
    /\ commands' = [q |-> <<>>, rx |-> FALSE]
    /\ UNCHANGED <<max_coord, init, events, pc, acc, ret, outcome, lastCall,
                   calls, initCalls, fRuns, cmdIssued, cmdReceived,
                   evtSent, evtReturned, evtAtCall, rt, px>>

\* drop(evt_tx): what is buffered stays readable.
BackendDropEvtTx ==
    /\ events.tx
    /\ events' = [events EXCEPT !.tx = FALSE]
    /\ UNCHANGED <<max_coord, init, commands, pc, acc, ret, outcome, lastCall,
                   calls, initCalls, fRuns, cmdIssued, cmdReceived,
                   evtSent, evtReturned, evtAtCall, rt, px>>

Producer ==
    \/ InitCall
    \/ get_max_coords
    \/ \E v \in XVals : set_max_x(v)
    \/ \E v \in YVals : set_max_y(v)
    \/ \E a \in DrawArgs : draw(a[1], a[2], a[3])
    \/ clear
    \/ \E msg \in PrintArgs : print(msg)
    \/ EventsCall
    \/ EventsNext
    \/ EventsReturn

Backend ==
    \/ BackendRecv
    \/ \E evt \in BackendEvents : BackendSend(evt)
    \/ BackendDropCmdRx
    \/ BackendDropEvtTx

Next == Producer \/ Backend

Spec == Init /\ [][Next]_vars

\* The event channel and its two ends on their own: the producer sets the
\* maximum and polls, the backend sends and drops its sender.
NextEvents ==
    \/ \E v \in XVals : set_max_x(v)
    \/ \E v \in YVals : set_max_y(v)
    \/ EventsCall
    \/ EventsNext
    \/ EventsReturn
    \/ \E evt \in BackendEvents : BackendSend(evt)
    \/ BackendDropEvtTx

\* The producer's thread keeps running: a call of events() that can take a
\* step takes it.
FairSpec ==
    Init /\ [][NextEvents]_vars /\ WF_vars(EventsNext) /\ WF_vars(EventsReturn)

\* ChannelWindow::construct: two fresh channels and the endpoint built by
\* new with the empty closure || () as its initializer; the backend is
\* handed the other two halves.
Construct ==
    /\ New("noop")
    /\ pc = "idle"
    /\ acc = <<>>
    /\ ret = <<>>
    /\ outcome = "none"
    /\ lastCall = [op |-> "none", arg |-> <<>>]
    /\ calls = 0
    /\ initCalls = 0
    /\ fRuns = 0
    /\ cmdIssued = <<>>
    /\ cmdReceived = <<>>
    /\ evtSent = <<>>
    /\ evtReturned = <<>>
    /\ evtAtCall = NoCall
    /\ px = PXOff
    /\ rt = RTOff

\* The endpoint of construct() driven with any maximum, while the backend
\* keeps both of its halves: it reads commands and sends events when it
\* gets to it.
NextConstruct ==
    \/ InitCall
    \/ get_max_coords
    \/ \E v \in AxisVals : set_max_x(v)
    \/ \E v \in AxisVals : set_max_y(v)
    \/ \E a \in DrawArgs : draw(a[1], a[2], a[3])
    \/ clear
    \/ \E msg \in TextVals : print(msg)
    \/ EventsCall
    \/ EventsNext
    \/ EventsReturn
    \/ BackendRecv
    \/ \E evt \in BackendEvents : BackendSend(evt)

SpecConstruct == Construct /\ [][NextConstruct]_vars

\* The producer on its own: it sets the maximum and sends, while the backend
\* holds its two halves and performs no step.
NextQuiet ==
    \/ \E v \in XVals : set_max_x(v)
    \/ \E v \in YVals : set_max_y(v)
    \/ \E a \in DrawArgs : draw(a[1], a[2], a[3])
    \/ clear
    \/ \E msg \in TextVals : print(msg)

SpecQuiet == Construct /\ [][NextQuiet]_vars

(***************************************************************************)
(* The two coordinate transforms on their own: a point p and a viewport    *)
(* maximum are drawn from every value of the format; draw's transform      *)
(* gives n (what goes on the wire), and the transform of events() applied  *)
(* to a click at n gives r.                                                *)
(***************************************************************************)
InitRT ==
    /\ New("f")
    /\ pc = "idle"
    /\ acc = <<>>
    /\ ret = <<>>
    /\ outcome = "none"
    /\ lastCall = [op |-> "none", arg |-> <<>>]
    /\ calls = 0
    /\ initCalls = 0
    /\ fRuns = 0
    /\ cmdIssued = <<>>
    /\ cmdReceived = <<>>
    /\ evtSent = <<>>
    /\ evtReturned = <<>>
    /\ evtAtCall = NoCall
    /\ px = PXOff
    /\ \E x \in AllFloats, m \in AllFloats :
          rt = [phase |-> "in", p |-> <<x, x>>, max |-> <<m, m>>,
                n |-> NoCoord, r |-> NoCoord]

\* channel.rs:54: the transform of draw.
RTDraw ==
    /\ rt.phase = "in"
    /\ rt' = [rt EXCEPT !.phase = "sent", !.n = Normalize(rt.p, rt.max)]
    /\ UNCHANGED <<relayVars, px>>

\* channel.rs:72-78: the transform of events() on a click echoed at n.
RTEvents ==
    /\ rt.phase = "sent"
    /\ rt' = [rt EXCEPT
                !.phase = "back",
                !.r = Denormalize(MouseClicked(rt.n, "left"), rt.max).pos]
    /\ UNCHANGED <<relayVars, px>>

NextRT == RTDraw \/ RTEvents

SpecRT == InitRT /\ [][NextRT]_vars

(***************************************************************************)
(* pos.rs: FilePos, its FromStr, and the wrapper Pos<T>.  Strings are      *)
(* sequences of one-character strings.                                     *)
(***************************************************************************)
UsizeMax == Pow2(UsizeBits) - 1

\* char::is_ascii_digit
IsAsciiDigit(c) == c \in {"0", "1", "2", "3", "4", "5", "6", "7", "8", "9"}

\* char::to_digit(10) of an ASCII digit.
DigitVal(c) ==
    CASE c = "0" -> 0 [] c = "1" -> 1 [] c = "2" -> 2 [] c = "3" -> 3
      [] c = "4" -> 4 [] c = "5" -> 5 [] c = "6" -> 6 [] c = "7" -> 7
      [] c = "8" -> 8 [] c = "9" -> 9

\* FilePos::new
FilePosNew(line, column) == [line |-> line, column |-> column]

\* Result<usize, ParseIntError>
UOk(v) == [ok |-> TRUE, val |-> v, kind |-> ""]
UErr(kind) == [ok |-> FALSE, val |-> 0, kind |-> kind]

\* Result<FilePos, FilePosParseErr>: Ok(pos), Err(NoDelimiter), or
\* Err(ParseError(e)) with the kind of the ParseIntError e.
Ok(pos) == [ok |-> TRUE, val |-> pos, err |-> "", kind |-> ""]
NoDelimiter ==
    [ok |-> FALSE, val |-> FilePosNew(0, 0), err |-> "NoDelimiter", kind |-> ""]
ParseError(kind) ==
    [ok |-> FALSE, val |-> FilePosNew(0, 0), err |-> "ParseError",
     kind |-> kind]

\* Defective variant: rsplit_once, the split at the last non-digit.
LastNonDigit(s) ==
    IF \E i \in 1 .. Len(s) : ~IsAsciiDigit(s[i])
    THEN CHOOSE i \in 1 .. Len(s) :
           /\ ~IsAsciiDigit(s[i])
           /\ \A j \in i + 1 .. Len(s) : IsAsciiDigit(s[j])
    ELSE 0

\* Where split_once(|c| !c.is_ascii_digit()) finds its delimiter: the index
\* of the first character that is not an ASCII digit, 0 if there is none.
FirstNonDigit(s) ==
    IF \E i \in 1 .. Len(s) : ~IsAsciiDigit(s[i])
    THEN CHOOSE i \in 1 .. Len(s) :
           /\ ~IsAsciiDigit(s[i])
           /\ \A j \in 1 .. i - 1 : IsAsciiDigit(s[j])
    ELSE 0

\* str::split_once: None, or Some((before, after)) without the delimiter.
SplitOnce(s) ==
    LET i == FirstNonDigit(s)
    IN IF i = 0
       THEN [some |-> FALSE, line |-> <<>>, column |-> <<>>]
       ELSE [some |-> TRUE, line |-> SubSeq(s, 1, i - 1),
             column |-> SubSeq(s, i + 1, Len(s))]

\* The digit loop of usize::from_str_radix(t, 10), left to right with
\* checked arithmetic.
RECURSIVE ParseDigits(_, _)
ParseDigits(t, n) ==
    IF t = <<>> THEN UOk(n)
    ELSE IF ~IsAsciiDigit(Head(t)) THEN UErr("InvalidDigit")
    ELSE LET v == n * 10 + DigitVal(Head(t))
         IN IF v > UsizeMax THEN UErr("PosOverflow")
            ELSE ParseDigits(Tail(t), v)

\* str::parse::<usize>: the empty string is an error, so is a lone sign; one
\* leading "+" is skipped (a leading "-" is not, for an unsigned type, and
\* fails as a digit); the rest must be digits and fit in usize.
ParseUsize(t) ==
    IF t = <<>> THEN UErr("Empty")
    ELSE IF t = <<"+">> \/ t = <<"-">> THEN UErr("InvalidDigit")
    ELSE ParseDigits(IF Head(t) = "+" THEN Tail(t) ELSE t, 0)

\* Defective variant: the two parts end up in each other's field.
FromStrSwapped(s) ==
    LET sp == SplitOnce(s)
    IN IF ~sp.some THEN NoDelimiter
       ELSE LET line == ParseUsize(sp.line)
                column == ParseUsize(sp.column)
            IN IF ~line.ok THEN ParseError(line.kind)
               ELSE IF ~column.ok THEN ParseError(column.kind)
               ELSE Ok(FilePosNew(column.val, line.val))

\* <FilePos as FromStr>::from_str
FromStr(s) ==
    LET sp == SplitOnce(s)
    IN IF ~sp.some THEN NoDelimiter
       ELSE LET line == ParseUsize(sp.line)
                column == ParseUsize(sp.column)
            IN IF ~line.ok THEN ParseError(line.kind)
               ELSE IF ~column.ok THEN ParseError(column.kind)
               ELSE Ok(FilePosNew(line.val, column.val))

\* Pos::new
PosNew(token, pos) == [pos |-> pos, token |-> token]

\* Positionable::attach_pos
attach_pos(token, pos) == PosNew(token, pos)

\* Pos::get_pos
get_pos(p) == p.pos

\* The functions handed to map, on tokens that are strings: the string
\* twice, its first character, the string reversed.
Fns == {"twice", "first", "reversed"}
Apply(f, t) ==
    CASE f = "twice" -> t \o t
      [] f = "first" -> SubSeq(t, 1, 1)
      [] f = "reversed" -> [i \in 1 .. Len(t) |-> t[Len(t) + 1 - i]]

\* Defective variant: the location is not carried over.
MapDefaultPos(p, f) == [pos |-> FilePosNew(0, 0), token |-> Apply(f, p.token)]

\* Pos::map
map(p, f) == [pos |-> p.pos, token |-> Apply(f, p.token)]

\* Pos::into_inner
into_inner(p) == p.token

\* <Pos<T> as Deref>::deref
deref(p) == p.token

\* Inputs: the strings given to from_str, the tokens wrapped and the
\* locations attached to them.
Chars == {"0", "1", "9", ":", "+", "-"}
Strings == UNION {[1 .. n -> Chars] : n \in 0 .. MaxStrLen}
Tokens == {<<"a">>, <<"a", "b">>}
PosVals == {FilePosNew(0, 0), FilePosNew(1, 2), FilePosNew(12, 7)}

NoOut == [op |-> "none", val |-> <<>>, at |-> 0]

\* A client of pos.rs: it parses a string into a FilePos and may attach the
\* result to a token, or it wraps a token with a location it has; a wrapped
\* token is mapped, inspected, and in the end unwrapped.
InitPos ==
    /\ New("f")
    /\ pc = "idle"
    /\ acc = <<>>
    /\ ret = <<>>
    /\ outcome = "none"
    /\ lastCall = [op |-> "none", arg |-> <<>>]
    /\ calls = 0
    /\ initCalls = 0
    /\ fRuns = 0
    /\ cmdIssued = <<>>
    /\ cmdReceived = <<>>
    /\ evtSent = <<>>
    /\ evtReturned = <<>>
    /\ evtAtCall = NoCall
    /\ rt = RTOff
    /\ \/ \E s \in Strings :
            px = [PXOff EXCEPT !.phase = "str", !.s = s, !.out = NoOut]
       \/ \E t \in Tokens, pos \in PosVals :
            px = [PXOff EXCEPT !.phase = "tok", !.tok0 = t, !.given = pos,
                               !.out = NoOut]

\* s.parse::<FilePos>()
PXFromStr ==
    /\ px.phase = "str"
    /\ px' = [px EXCEPT !.phase = "parsed", !.res = FromStr(px.s)]
    /\ UNCHANGED <<relayVars, rt>>

\* token.attach_pos(pos) with the location just parsed.
PXAttach(t) ==
    /\ px.phase = "parsed"
    /\ px.res.ok
    /\ px' = [px EXCEPT !.phase = "pos", !.tok0 = t, !.given = px.res.val,
                        !.p = attach_pos(t, px.res.val)]
    /\ UNCHANGED <<relayVars, rt>>

\* Pos::new(token, pos)
PXNew ==
    /\ px.phase = "tok"
    /\ px' = [px EXCEPT !.phase = "pos", !.p = PosNew(px.tok0, px.given)]
    /\ UNCHANGED <<relayVars, rt>>

\* p = p.map(f)
PXMap(f) ==
    /\ px.phase = "pos"
    /\ Len(px.fns) < MaxMaps
    /\ px' = [px EXCEPT !.p = map(px.p, f), !.fns = Append(px.fns, f)]
    /\ UNCHANGED <<relayVars, rt>>

\* p.get_pos()
PXGetPos ==
    /\ px.phase = "pos"
    /\ px' = [px EXCEPT !.out = [op |-> "get_pos", val |-> get_pos(px.p),
                                 at |-> Len(px.fns)]]
    /\ UNCHANGED <<relayVars, rt>>

\* *p
PXDeref ==
    /\ px.phase = "pos"
    /\ px' = [px EXCEPT !.out = [op |-> "deref", val |-> deref(px.p),
                                 at |-> Len(px.fns)]]
    /\ UNCHANGED <<relayVars, rt>>

\* p.into_inner(), which consumes p.
PXIntoInner ==
    /\ px.phase = "pos"
    /\ px' = [px EXCEPT !.phase = "gone",
                        !.out = [op |-> "into_inner", val |-> into_inner(px.p),
                                 at |-> Len(px.fns)]]
    /\ UNCHANGED <<relayVars, rt>>

NextPos ==
    \/ PXFromStr
    \/ \E t \in Tokens : PXAttach(t)
    \/ PXNew
    \/ \E f \in Fns : PXMap(f)
    \/ PXGetPos
    \/ PXDeref
    \/ PXIntoInner

SpecPos == InitPos /\ [][NextPos]_vars

(***************************************************************************)
(* Properties.                                                             *)
(***************************************************************************)
IsPrefix(a, b) == Len(a) <= Len(b) /\ a = SubSeq(b, 1, Len(a))

SendOps == {"draw", "clear", "print"}

\* Everything the command channel has carried: read by the backend, or still
\* buffered.
Wire == cmdReceived \o commands.q

\* After a completed events() call: the number of events returned by the
\* calls before it.
ReturnedBefore == Len(evtReturned) - Len(ret)

AfterEvents == pc = "idle" /\ lastCall.op = "events"

\* The event the producer is to see for a sent event under the maximum max.
Rescaled(evt, max) ==
    IF evt.kind = "MouseClicked"
    THEN MouseClicked(<<FMul(evt.pos[1], max[1]), FMul(evt.pos[2], max[2])>>,
                      evt.data)
    ELSE evt

\* The same event, up to the rescaling of a click position.
SameUpToRescale(a, b) ==
    /\ a.kind = b.kind
    /\ a.data = b.data
    /\ a.kind # "MouseClicked" => a = b

C200x100 == <<FromInt(200), FromInt(100)>>

\* C1: while the command receiver is alive, what the backend has read
\* followed by what is still buffered is exactly the sequence of commands
\* the producer issued, in order (so what it has read is a prefix, nothing
\* lost, duplicated or reordered; after N reads of N commands it holds those
\* N); what it has read is a prefix of the issued sequence in any case.
C1_Fifo ==
    /\ IsPrefix(cmdReceived, cmdIssued)
    /\ commands.rx => Wire = cmdIssued
    /\ commands.rx /\ Len(cmdReceived) = Len(cmdIssued)
         => cmdReceived = cmdIssued

\* Three commands of three kinds issued and all read by the backend.
C1_Witness ==
    /\ commands.rx
    /\ Len(cmdReceived) = 3
    /\ cmdReceived = cmdIssued
    /\ cmdReceived[1].kind = "Draw"
    /\ cmdReceived[2].kind = "Clear"
    /\ cmdReceived[3].kind = "Print"

\* C2: the initializer f given to ChannelWindow::new has run exactly once if
\* init() was called at least once and never otherwise; after the first
\* call only the empty closure is stored, and every init() call completes
\* normally.
C2_InitOnce ==
    /\ fRuns = (IF initCalls >= 1 THEN 1 ELSE 0)
    /\ initCalls >= 1 => init = "noop"
    /\ initCalls = 0 => init = "f"
    /\ lastCall.op = "init" => outcome = "ok"

\* init() called twice, f run once.
C2_Witness == initCalls = 2 /\ fRuns = 1 /\ lastCall.op = "init"

\* C3: after draw(from, to, c) under a maximum (mx, my) with both axes
\* non-zero, the newest command on the wire is
\* Draw((from.x/mx, from.y/my), (to.x/mx, to.y/my), c); under (200, 100),
\* draw((0,0), (200,100), c) is sent as Draw((0,0), (1,1), c).
C3_DrawNormalizes ==
    ( /\ lastCall.op = "draw"
      /\ outcome = "ok"
      /\ commands.rx
      /\ ~IsZero(max_coord[1])
      /\ ~IsZero(max_coord[2]) )
    => LET from == lastCall.arg[1]
           to == lastCall.arg[2]
           c == lastCall.arg[3]
           sent == Wire[Len(Wire)]
       IN /\ sent.kind = "Draw"
          /\ sent.from = <<FDiv(from[1], max_coord[1]),
                           FDiv(from[2], max_coord[2])>>
          /\ sent.to = <<FDiv(to[1], max_coord[1]),
                         FDiv(to[2], max_coord[2])>>
          /\ sent.col = c
          /\ ( /\ max_coord = C200x100
               /\ from = <<Zero(0), Zero(0)>>
               /\ to = C200x100 )
             => /\ sent.from = <<Zero(0), Zero(0)>>
                /\ sent.to = <<FromInt(1), FromInt(1)>>

\* draw((0,0), (200,100), "red") under (200, 100) is on the wire as
\* Draw((0,0), (1,1), "red").
C3_Witness ==
    /\ lastCall = [op |-> "draw",
                   arg |-> <<<<Zero(0), Zero(0)>>, C200x100, "red">>]
    /\ outcome = "ok"
    /\ commands.rx
    /\ max_coord = C200x100
    /\ Wire[Len(Wire)] =
         CmdDraw(<<Zero(0), Zero(0)>>, <<FromInt(1), FromInt(1)>>, "red")

\* C4: every event an events() call returns is the event the backend sent
\* at that place in its sequence: a click with its position multiplied axis
\* by axis by the maximum of the time of the call and its payload unchanged
\* ((0.5, 0.5) under (200, 100) is (100, 50)), any other event as sent.
C4_EventsRescale ==
    AfterEvents /\ outcome = "ok"
    => \A i \in 1 .. Len(ret) :
         LET sent == evtSent[ReturnedBefore + i]
         IN /\ sent.kind = "MouseClicked"
                 => /\ ret[i].kind = "MouseClicked"
                    /\ ret[i].pos = <<FMul(sent.pos[1], max_coord[1]),
                                      FMul(sent.pos[2], max_coord[2])>>
                    /\ ret[i].data = sent.data
            /\ sent.kind # "MouseClicked" => ret[i] = sent
            /\ sent.kind = "MouseClicked" /\ sent.pos = <<Half, Half>>
                 /\ max_coord = C200x100
                 => ret[i].pos = <<FromInt(100), FromInt(50)>>

\* One events() call under (200, 100) returns the click sent at (0.5, 0.5)
\* as a click at (100, 50), and the key event as it was sent.
C4_Witness ==
    /\ AfterEvents
    /\ max_coord = C200x100
    /\ evtSent = <<MouseClicked(<<Half, Half>>, "left"), OtherEvent("key")>>
    /\ ret = <<MouseClicked(<<FromInt(100), FromInt(50)>>, "left"),
               OtherEvent("key")>>

\* The value of a finite a in units of 2^Emin, and absolute values.
Units(a) == (IF a.s = 1 THEN -1 ELSE 1) * a.m * Pow2(a.e - Emin)
Abs(v) == IF v < 0 THEN 0 - v ELSE v

\* |r - x| <= 2^(1 - Precision) * |x|: r is x or a neighbour of x in the
\* format (2^-52 * |x| in f64).
WithinTolerance(r, x) ==
    Abs(Units(r) - Units(x)) * Pow2(Precision - 1) <= Abs(Units(x))

\* Axis i of a finished round trip where nothing overflows or underflows:
\* the point and the maximum are finite, the maximum is not zero, the
\* quotient is zero or a normal number, and the product is finite.
RTExact(i) ==
    /\ rt.phase = "back"
    /\ IsFinite(rt.p[i])
    /\ IsFinite(rt.max[i])
    /\ ~IsZero(rt.max[i])
    /\ IsZero(rt.p[i]) \/ IsNormal(rt.n[i])
    /\ IsFinite(rt.r[i])

\* C5 as stated: dividing by a non-zero maximum and multiplying by it again
\* gives back the coordinate itself (taken here only where nothing
\* overflows or underflows).
C5_RoundTripExact ==
    \A i \in {1, 2} : RTExact(i) => FEq(rt.r[i], rt.p[i])

\* C5, amended: where nothing overflows or underflows, the round trip gives
\* back the coordinate to within one rounding step, |r - x| <= eps * |x|
\* with eps = 2^(1 - Precision).
C5_RoundTripTolerance ==
    \A i \in {1, 2} : RTExact(i) => WithinTolerance(rt.r[i], rt.p[i])

\* A round trip without overflow or underflow that does not give back the
\* coordinate it started from.
C5_Witness ==
    /\ RTExact(1)
    /\ ~IsZero(rt.p[1])
    /\ ~FEq(rt.r[1], rt.p[1])
    /\ WithinTolerance(rt.r[1], rt.p[1])

\* C6: a draw, clear or print call made after the command receiver was
\* dropped ends in a panic and changes nothing: no command is buffered or
\* delivered and max_coord keeps its value; a dropped receiver stays
\* dropped and its channel buffers nothing.
C6_SendAfterDropFails ==
    [][ /\ ~commands.rx => ~commands.rx' /\ commands'.q = <<>>
        /\ ( /\ ~commands.rx
             /\ calls' = calls + 1
             /\ lastCall'.op \in SendOps )
           => /\ outcome' = "panic"
              /\ commands' = commands
              /\ cmdReceived' = cmdReceived
              /\ cmdIssued' = cmdIssued
              /\ max_coord' = max_coord ]_vars

\* The receiver was dropped with a command still buffered, and a draw made
\* after that panicked.
C6_Witness ==
    /\ ~commands.rx
    /\ lastCall.op = "draw"
    /\ outcome = "panic"
    /\ Len(cmdIssued) = 1
    /\ cmdReceived = <<>>
    /\ ~IsZero(max_coord[1])

\* C7: inside events() a step of the call is always possible, whatever the
\* backend does or has done (it never waits); the call returns; and when
\* every event sent so far was already returned by earlier calls, it
\* returns the empty sequence.
C7_EventsNeverBlocks ==
    /\ [](pc = "events" => ENABLED (EventsNext \/ EventsReturn))
    /\ [][pc = "events" /\ pc' = "idle" /\ Len(evtSent) = Len(evtReturned)
            => ret' = <<>> /\ outcome' = "ok"]_vars
    /\ (pc = "events") ~> (pc = "idle")

\* events() has returned the empty sequence although the backend never sent
\* anything and still holds its sender.
C7_Witness ==
    /\ AfterEvents
    /\ outcome = "ok"
    /\ ret = <<>>
    /\ evtSent = <<>>
    /\ events.tx

\* C8: the results of all events() calls, concatenated, are a prefix of the
\* sequence of events the backend sent (up to the rescaling of clicks), in
\* order; every event sent is returned, held by the running call, or still
\* buffered, exactly once and in send order; and once a call has returned,
\* every event sent before it began has been returned.
C8_EventsFifo ==
    /\ Len(evtReturned) + Len(acc) + Len(events.q) = Len(evtSent)
    /\ \A i \in 1 .. Len(evtReturned) :
         SameUpToRescale(evtReturned[i], evtSent[i])
    /\ \A i \in 1 .. Len(acc) :
         SameUpToRescale(acc[i], evtSent[Len(evtReturned) + i])
    /\ \A i \in 1 .. Len(events.q) :
         events.q[i] = evtSent[Len(evtReturned) + Len(acc) + i]
    /\ AfterEvents /\ outcome = "ok" => Len(evtReturned) >= evtAtCall.sent

\* Two events() calls interleaved with two sends: each returned one event,
\* of different kinds, and nothing is left buffered.
C8_Witness ==
    /\ AfterEvents
    /\ Len(evtReturned) = 2
    /\ Len(ret) = 1
    /\ evtReturned[1].kind # evtReturned[2].kind
    /\ events.q = <<>>

\* C9 as stated: an events() call returns exactly the events that were
\* buffered when it began.
C9_Snapshot ==
    AfterEvents /\ outcome = "ok"
    => ret = [i \in 1 .. evtAtCall.sent - ReturnedBefore |->
                Rescaled(evtSent[ReturnedBefore + i], max_coord)]

\* C9, amended: an events() call returns every event that was buffered when
\* it began, in send order, followed by those the backend sent while the
\* call was draining, in send order; when nothing was sent after the call
\* began the result is exactly what was buffered then.
C9_AtLeastSnapshot ==
    AfterEvents /\ outcome = "ok"
    => /\ Len(ret) >= evtAtCall.sent - ReturnedBefore
       /\ Len(ret) <= Len(evtSent) - ReturnedBefore
       /\ \A i \in 1 .. Len(ret) :
            ret[i] = Rescaled(evtSent[ReturnedBefore + i], max_coord)
       /\ Len(evtSent) = evtAtCall.sent
            => Len(ret) = evtAtCall.sent - ReturnedBefore

\* An events() call that began with nothing buffered returned an event sent
\* while it ran.
C9_Witness ==
    /\ AfterEvents
    /\ evtAtCall.sent = ReturnedBefore
    /\ Len(ret) = 1

\* C10 as stated: events() called after the event sender was dropped ends in
\* a failure.
C10_DisconnectSurfaced ==
    AfterEvents /\ ~evtAtCall.tx => outcome = "panic"

\* C10, amended: events() called after the event sender was dropped returns
\* normally, with the events still buffered (none, if none is buffered), as
\* it does when the sender is alive and nothing more is pending.
C10_DisconnectSwallowed ==
    AfterEvents /\ ~evtAtCall.tx
    => /\ outcome = "ok"
       /\ ret = [i \in 1 .. Len(evtSent) - ReturnedBefore |->
                   Rescaled(evtSent[ReturnedBefore + i], max_coord)]

\* events() called after the sender was dropped, with nothing buffered,
\* returned normally and empty.
C10_Witness ==
    /\ AfterEvents
    /\ ~evtAtCall.tx
    /\ outcome = "ok"
    /\ ret = <<>>

\* A step that completes a call of op (events() completes at its entry as
\* far as its arguments and the maximum are concerned).
CallOf(op) == calls' = calls + 1 /\ lastCall'.op = op

\* C11: the maximum is (0, 0) after construction; a set_max_x(x) call
\* stores x, whatever it is, in the x axis and leaves the y axis as it was,
\* set_max_y(y) likewise for y; every other step (init, draw, clear, print,
\* events, get_max_coords, and the backend's) leaves both axes as they
\* were; and get_max_coords returns the maximum as it stands, that is, per
\* axis the last value passed to its setter, or 0.
C11_MaxCoordFrame ==
    /\ max_coord = <<Zero(0), Zero(0)>>
    /\ [][ /\ CallOf("set_max_x")
               => /\ max_coord' = <<lastCall'.arg[1], max_coord[2]>>
                  /\ outcome' = "ok"
           /\ CallOf("set_max_y")
               => /\ max_coord' = <<max_coord[1], lastCall'.arg[1]>>
                  /\ outcome' = "ok"
           /\ ~CallOf("set_max_x") /\ ~CallOf("set_max_y")
               => max_coord' = max_coord
           /\ CallOf("get_max_coords")
               => ret' = max_coord /\ outcome' = "ok" ]_vars

\* get_max_coords after set_max_x(-3) and set_max_y(200) returned (-3, 200).
C11_Witness ==
    /\ lastCall.op = "get_max_coords"
    /\ ret = <<FNeg(FromInt(3)), FromInt(200)>>
    /\ max_coord = ret

\* C12: with the backend holding its receiver and performing no step, the
\* producer can always make a further draw, clear or print call, however
\* many commands are buffered (a call never waits for the backend); every
\* such call has ended normally; and everything issued is buffered, in
\* order, for the backend to read later.
C12_FireAndForget ==
    /\ CanCall /\ commands.rx
         => /\ ENABLED clear
            /\ \A msg \in TextVals : ENABLED print(msg)
            /\ \A a \in DrawArgs : ENABLED draw(a[1], a[2], a[3])
    /\ lastCall.op \in SendOps /\ commands.rx => outcome = "ok"
    /\ commands.rx /\ cmdReceived = <<>> => commands.q = cmdIssued

\* Three commands issued and buffered while the backend has read nothing.
C12_Witness ==
    /\ commands.rx
    /\ cmdReceived = <<>>
    /\ Len(cmdIssued) = 3
    /\ commands.q = cmdIssued
    /\ lastCall.op \in SendOps
    /\ outcome = "ok"

\* f_n(.. f_1(t)) for the functions fs = <<f_1, .., f_n>>.
RECURSIVE ApplyAll(_, _)
ApplyAll(fs, t) ==
    IF fs = <<>> THEN t ELSE ApplyAll(Tail(fs), Apply(Head(fs), t))

\* C13: a Pos built by Pos::new or attach_pos from a token and a location,
\* and then mapped any number of times, still carries the location it was
\* built with, and its value is the token with the mapped functions applied
\* in order; get_pos returns that location; dereferencing and into_inner
\* give the value wrapped at the time.
C13_PosMap ==
    /\ px.phase \in {"pos", "gone"}
         => /\ px.p.pos = px.given
            /\ px.p.token = ApplyAll(px.fns, px.tok0)
    /\ px.out.op = "get_pos" => px.out.val = px.given
    /\ px.out.op \in {"deref", "into_inner"}
         => px.out.val = ApplyAll(SubSeq(px.fns, 1, px.out.at), px.tok0)

\* The token "ab" attached to the parsed location (1, 9), mapped to "ba" and
\* then to "baba", and unwrapped.
C13_Witness ==
    /\ px.phase = "gone"
    /\ px.given = FilePosNew(1, 9)
    /\ px.tok0 = <<"a", "b">>
    /\ px.fns = <<"reversed", "twice">>
    /\ px.p = [pos |-> FilePosNew(1, 9), token |-> <<"b", "a", "b", "a">>]
    /\ px.out.op = "into_inner"
    /\ px.out.val = <<"b", "a", "b", "a">>

\* A step of the producer inside events().
EventsStep == pc = "events" /\ (acc' # acc \/ pc' = "idle")

\* The command channel and its two histories are as they were.
CmdSideUnchanged ==
    /\ commands' = commands
    /\ cmdIssued' = cmdIssued
    /\ cmdReceived' = cmdReceived

\* The one command c was sent, and nothing else happened to the channel.
SentExactly(c) ==
    /\ cmdIssued' = Append(cmdIssued, c)
    /\ commands' = [commands EXCEPT !.q = Append(@, c)]
    /\ cmdReceived' = cmdReceived

\* C14: with the command receiver alive, a draw call sends exactly one Draw
\* command (with the colour given), a clear call exactly one Clear, and a
\* print(text) call exactly one Print whose text equals the argument; a
\* call of init (on the endpoint of construct, whose initializer is empty),
\* get_max_coords, set_max_x, set_max_y or events, and every step inside
\* events(), sends nothing and takes nothing from the command channel.
C14_OneMessagePerCall ==
    [][ /\ CallOf("draw") /\ commands.rx
            => \E c \in {cmdIssued'[Len(cmdIssued')]} :
                 /\ c.kind = "Draw"
                 /\ c.col = lastCall'.arg[3]
                 /\ SentExactly(c)
        /\ CallOf("clear") /\ commands.rx => SentExactly(CmdClear)
        /\ CallOf("print") /\ commands.rx
            => SentExactly(CmdPrint(lastCall'.arg[1]))
        /\ (\E op \in {"init", "get_max_coords", "set_max_x", "set_max_y",
                       "events"} : CallOf(op))
            => CmdSideUnchanged
        /\ EventsStep => CmdSideUnchanged ]_vars

\* After init(), a complete events() and print("bye"), the channel has
\* carried the one command Print("bye").
C14_Witness ==
    /\ calls = 3
    /\ initCalls = 1
    /\ evtReturned # <<>>
    /\ lastCall = [op |-> "print", arg |-> <<"bye">>]
    /\ cmdIssued = <<CmdPrint("bye")>>
    /\ Wire = cmdIssued

\* C15: a draw call divides by the maximum that holds when it is made, and
\* a command once sent is never altered: not by a later set_max_x or
\* set_max_y, which touch neither channel, nor by any other step; the
\* maximum cannot change while events() runs, and the events a call of
\* events() returns are the sent ones with clicks multiplied by the maximum
\* that holds during that call, whatever it was when the backend sent them
\* or when any draw was made.
C15_MaxAtCallTime ==
    [][ /\ CallOf("draw") /\ commands.rx
            => cmdIssued'[Len(cmdIssued')] =
                 CmdDraw(<<FDiv(lastCall'.arg[1][1], max_coord[1]),
                           FDiv(lastCall'.arg[1][2], max_coord[2])>>,
                         <<FDiv(lastCall'.arg[2][1], max_coord[1]),
                           FDiv(lastCall'.arg[2][2], max_coord[2])>>,
                         lastCall'.arg[3])
        /\ CallOf("set_max_x") \/ CallOf("set_max_y")
            => /\ CmdSideUnchanged
               /\ events' = events
               /\ evtReturned' = evtReturned
        /\ IsPrefix(cmdIssued, cmdIssued')
        /\ IsPrefix(cmdReceived, cmdReceived')
        /\ commands'.rx => IsPrefix(Wire, Wire')
        /\ pc = "events" \/ pc' = "events" => max_coord' = max_coord
        /\ pc = "events" /\ pc' = "idle"
            => /\ evtReturned' = evtReturned \o ret'
               /\ \A i \in 1 .. Len(ret') :
                    ret'[i] = Rescaled(evtSent[Len(evtReturned) + i],
                                       max_coord) ]_vars

\* A Draw sent while the maximum was (0, 0) still carries the coordinates
\* computed then after set_max_x(200), and the events() call made after
\* that returned the click sent at (0.5, 0.5) as a click at (100, 0).
C15_Witness ==
    /\ AfterEvents
    /\ max_coord = <<FromInt(200), Zero(0)>>
    /\ Len(cmdIssued) = 1
    /\ cmdIssued[1].kind = "Draw"
    /\ cmdIssued[1].to = <<Inf(0), Inf(0)>>
    /\ Wire = cmdIssued
    /\ evtSent = <<MouseClicked(<<Half, Half>>, "left")>>
    /\ ret = <<MouseClicked(<<FromInt(100), Zero(0)>>, "left")>>

\* The result of a division by zero: NaN or an infinity.
Degenerate(a) == IsNaN(a) \/ IsInf(a)

\* 0 <= a <= 1
InUnitInterval(a) ==
    /\ IsFinite(a)
    /\ IsZero(a) \/ (a.s = 0 /\ Units(a) <= Units(FromInt(1)))

\* C16: a draw call made while axis i of the maximum is zero (as it is from
\* construction until its setter is called, or after the setter was given
\* zero) ends normally and sends exactly one Draw command, whose from and to
\* coordinates on axis i are NaN or infinite, and so not in [0, 1]; so is
\* the quotient of every value of the format by either zero.
C16_DrawZeroMax ==
    /\ \A p \in AllFloats, z \in {Zero(0), Zero(1)} :
         Degenerate(FDiv(p, z)) /\ ~InUnitInterval(FDiv(p, z))
    /\ [][ \A i \in {1, 2} :
             CallOf("draw") /\ commands.rx /\ IsZero(max_coord[i])
             => /\ outcome' = "ok"
                /\ \E c \in {cmdIssued'[Len(cmdIssued')]} :
                     /\ SentExactly(c)
                     /\ c.kind = "Draw"
                     /\ Degenerate(c.from[i]) /\ Degenerate(c.to[i])
                     /\ ~InUnitInterval(c.from[i])
                     /\ ~InUnitInterval(c.to[i]) ]_vars

\* The first call after construction is draw((0,0), (200,100), "red"): it
\* ended normally and Draw((NaN,NaN), (inf,inf), "red") is buffered.
C16_Witness ==
    /\ calls = 1
    /\ lastCall.op = "draw"
    /\ outcome = "ok"
    /\ max_coord = <<Zero(0), Zero(0)>>
    /\ commands.q = <<CmdDraw(<<NaN, NaN>>, <<Inf(0), Inf(0)>>, "red")>>

\* C17: dropping the event sender loses nothing: what is buffered, and what
\* a running events() call has gathered, stay as they are, and nothing is
\* sent afterwards; an events() call that began after the drop ends
\* normally and returns everything sent and not returned before, in send
\* order with clicks rescaled, leaving the channel empty; so every
\* events() call after that one finds everything returned already and
\* returns the empty sequence.
C17_DropKeepsBuffered ==
    [][ /\ events.tx /\ ~events'.tx
            => /\ events'.q = events.q
               /\ acc' = acc
               /\ evtSent' = evtSent
        /\ ~events.tx => ~events'.tx /\ evtSent' = evtSent
        /\ pc = "events" /\ pc' = "idle" /\ ~evtAtCall.tx
            => /\ outcome' = "ok"
               /\ evtReturned' = evtReturned \o ret'
               /\ Len(evtReturned') = Len(evtSent)
               /\ \A i \in 1 .. Len(ret') :
                    ret'[i] = Rescaled(evtSent[Len(evtReturned) + i],
                                       max_coord)
               /\ events'.q = <<>>
               /\ Len(evtReturned) = Len(evtSent) => ret' = <<>> ]_vars

\* The backend sent a click and a key event and dropped its sender; the
\* events() call made after that, under (200, 100), returned both.
C17_Witness ==
    /\ AfterEvents
    /\ ~evtAtCall.tx
    /\ evtAtCall.sent = 2
    /\ evtReturned = ret
    /\ ret = <<MouseClicked(<<FromInt(100), FromInt(50)>>, "left"),
               OtherEvent("key")>>
    /\ events.q = <<>>

\* After that, a second events() call returned the empty sequence.
C17_WitnessLater ==
    /\ AfterEvents
    /\ ~evtAtCall.tx
    /\ Len(evtReturned) = 2
    /\ ret = <<>>

AllDigits(t) == \A i \in 1 .. Len(t) : IsAsciiDigit(t[i])

\* The number a string of digits denotes in base 10.
RECURSIVE DecimalValue(_)
DecimalValue(t) ==
    IF t = <<>> THEN 0
    ELSE DecimalValue(SubSeq(t, 1, Len(t) - 1)) * 10 + DigitVal(t[Len(t)])

\* A non-empty string of digits whose value fits usize.
DigitString(t) == t # <<>> /\ AllDigits(t) /\ DecimalValue(t) <= UsizeMax

\* The length of the longest prefix of s made of digits only: s has a
\* non-digit character exactly when this is less than Len(s), and the first
\* one is then the character after the prefix.
LeadingDigits(s) ==
    CHOOSE n \in 0 .. Len(s) :
      /\ AllDigits(SubSeq(s, 1, n))
      /\ n = Len(s) \/ ~IsAsciiDigit(s[n + 1])

\* The parts of s before and after its first non-digit character.
PartBefore(s) == SubSeq(s, 1, LeadingDigits(s))
PartAfter(s) == SubSeq(s, LeadingDigits(s) + 2, Len(s))

\* t without one leading "+".
Unsigned(t) == IF t # <<>> /\ t[1] = "+" THEN Tail(t) ELSE t

IsParseError(res) == ~res.ok /\ res.err = "ParseError"

\* C18 as stated: a string without a non-digit character gives NoDelimiter;
\* digits a, one non-digit character, digits b (both non-empty and within
\* usize) give FilePos{a, b}; and a string whose part before or after the
\* first non-digit character is empty or has a further non-digit character
\* gives a ParseError.
C18_FromStrAsStated ==
    px.phase = "parsed"
    => LET a == PartBefore(px.s)
           b == PartAfter(px.s)
       IN /\ LeadingDigits(px.s) = Len(px.s) => px.res = NoDelimiter
          /\ LeadingDigits(px.s) < Len(px.s) /\ DigitString(a) /\ DigitString(b)
               => px.res = Ok(FilePosNew(DecimalValue(a), DecimalValue(b)))
          /\ LeadingDigits(px.s) < Len(px.s)
               /\ (a = <<>> \/ b = <<>> \/ ~AllDigits(b))
               => IsParseError(px.res)

\* C18, amended: a string without a non-digit character gives NoDelimiter;
\* otherwise, with a the part before the first non-digit character and b
\* the part after it less one leading "+" if it has one, the result is
\* FilePos{a, b} when a and b are non-empty strings of digits within usize,
\* and a ParseError in every other case (a part empty, b a lone "+", a
\* further non-digit character in b, a value beyond usize).
C18_FromStrPlusSign ==
    px.phase = "parsed"
    => LET a == PartBefore(px.s)
           b == Unsigned(PartAfter(px.s))
       IN /\ LeadingDigits(px.s) = Len(px.s) => px.res = NoDelimiter
          /\ LeadingDigits(px.s) < Len(px.s)
               => IF DigitString(a) /\ DigitString(b)
                  THEN px.res = Ok(FilePosNew(DecimalValue(a),
                                              DecimalValue(b)))
                  ELSE IsParseError(px.res)

\* "1:+9" was parsed, to FilePos{line: 1, column: 9}.
C18_Witness ==
    /\ px.phase = "parsed"
    /\ px.s = <<"1", ":", "+", "9">>
    /\ px.res = Ok(FilePosNew(1, 9))

====
